---- MODULE Spec2Model ----
(***************************************************************************)
(* The Frogworks daemon (src/daemon/src/main.rs): single-instance lock,    *)
(* loopback relay of start-up arguments, per-connection decoding and       *)
(* dispatch, tray task and process exit.                                   *)
(*                                                                         *)
(* Several daemon processes are started on one machine.  The operating     *)
(* system arbitrates the named lock and the TCP port.  Local programs that *)
(* are not the daemon may connect to the port and write arbitrary bytes.   *)
(* Command-line arguments are modelled as sequences of plain ASCII strings *)
(* without characters that JSON escapes, so the encoded length of a string *)
(* is its length plus two quotes.  One local program other than the daemon *)
(* is modelled; it makes one connection.                                   *)
(*                                                                         *)
(* The installation manager (src/installation_manager/src/main.rs) is a    *)
(* second program; it is modelled by the actions of InstNext over the      *)
(* registry, under the specification InstSpec, in which no daemon runs.    *)
(* A registry path is the sequence of its components.                      *)
(***************************************************************************)
EXTENDS Integers, Sequences, FiniteSets, TLC

\* ------------------------------------------------------------------ bounds
NumProcs == 2
BigArgCount == 300
MaxRuns == 2

\* ------------------------------------------------------- program constants
BUFFER_SIZE == 1024

Procs == 1..NumProcs

VARIABLES
    pc,          \* position of each process's main
    argv,        \* the arguments each process was started with
    isSingle,    \* what instance.is_single() told the process
    lockCalls,   \* how many times the process called SingleInstance::new
    lockHandles, \* processes holding a handle on the named OS lock object
    serverPc,    \* position of the task running start_server
    trayPc,      \* position of the task running setup_tray
    listener,    \* daemon processes whose TcpListener is bound to the port
    foreignPort, \* TRUE when a program that is not the daemon owns the port
    conns,       \* TCP connections made to a daemon listener, in connect order
    handled,     \* per process, the argument lists passed to handle_args
    relayResult, \* result of send_to_running_instance in each process
    relayCalls,  \* how many times the process called send_to_running_instance
    exitCode,    \* exit code of each terminated process
    quitAsked,   \* TRUE once the tray's Quit menu item was clicked
    waitsDone,   \* per process, the notified().await calls that have returned
    instPc,      \* position of the installation manager ("off": not in use)
    registry,    \* keys and values of the Windows registry that the manager uses
    runs         \* the runs of the installation manager, in order

vars == <<pc, argv, isSingle, lockCalls, lockHandles, serverPc, trayPc,
          listener, foreignPort, conns, handled, relayResult, relayCalls,
          exitCode, quitAsked, waitsDone, instPc, registry, runs>>

instVars == <<instPc, registry, runs>>

\* ------------------------------------------------------------- JSON values
\* Bytes of the elements lo..hi of an array (summed by halves).
RECURSIVE SumLen(_, _, _, _)
SumLen(ts, quoted, lo, hi) ==
    IF lo > hi THEN 0
    ELSE IF lo = hi THEN Len(ts[lo]) + (IF quoted THEN 2 ELSE 0)
    ELSE LET mid == (lo + hi) \div 2
         IN  SumLen(ts, quoted, lo, mid) + SumLen(ts, quoted, mid + 1, hi)

\* A serde_json::Value: a number, or an array whose elements are all strings
\* (quoted = TRUE) or all numbers (quoted = FALSE); items holds the text of
\* the elements and len the number of bytes of Value::to_string() (compact
\* form, no whitespace), kept with the value.
JNumber(t) ==
    [tag |-> "number", text |-> t, items |-> <<>>, quoted |-> FALSE, len |-> Len(t)]

JArray(ts, quoted) ==
    [tag |-> "array", text |-> "", items |-> ts, quoted |-> quoted,
     len |-> 2 + SumLen(ts, quoted, 1, Len(ts))
               + (IF Len(ts) > 1 THEN Len(ts) - 1 ELSE 0)]

\* json!(args) for args: Vec<String>
JsonOfArgs(args) == JArray(args, TRUE)

\* Number of bytes of Value::to_string().
ValueLen(v) == v.len

\* generate_message: the object {"data": data, "type": type}
generate_message(type, data) == [kind |-> "object", type |-> type, data |-> data, size |-> 0]

\* Bytes on the wire that are no JSON object with the fields of Message.
RawBytes(n) == [kind |-> "raw", type |-> "", data |-> JNumber("0"), size |-> n]

\* message.to_string().as_bytes(): {"data":<data>,"type":"<type>"}
FrameLen(f) ==
    IF f.kind = "raw" THEN f.size
    ELSE 19 + ValueLen(f.data) + Len(f.type)

RECURSIVE DocLen(_)
DocLen(doc) == IF doc = <<>> THEN 0 ELSE FrameLen(Head(doc)) + DocLen(Tail(doc))

Min(a, b) == IF a < b THEN a ELSE b

\* ------------------------------------------------- decoding and dispatch
\* stream.read(&mut buffer) with a buffer of BUFFER_SIZE bytes: the number of
\* bytes returned when avail bytes are readable.
ReadLen(avail) == Min(avail, BUFFER_SIZE)

\* serde_json::from_str::<Message>(&buffer[..n]) where the connection carries
\* the frames of doc back to back: it succeeds exactly when the n bytes are
\* one whole object and nothing else (a cut object ends in EOF, bytes after
\* the object are trailing characters, and no bytes at all are EOF).
Decode(doc, n) ==
    IF n > 0 /\ doc # <<>> /\ Head(doc).kind = "object" /\ n = FrameLen(Head(doc))
    THEN [ok |-> TRUE, message |-> Head(doc)]
    ELSE [ok |-> FALSE, message |-> RawBytes(0)]

\* from_value::<Vec<String>>(data) is Ok for an array of strings only.
IsStringArray(v) == v.tag = "array" /\ v.quoted

ArgsOf(v) == v.items

handle_message_NoDefault(message) ==
    IF IsStringArray(message.data)
    THEN [outcome |-> "dispatched", args |-> ArgsOf(message.data)]
    ELSE [outcome |-> "panic_data", args |-> <<>>]

\* handle_message: what happens to a decoded message.
handle_message(message) ==
    IF message.type = "args"
    THEN IF IsStringArray(message.data)
         THEN [outcome |-> "dispatched", args |-> ArgsOf(message.data)]
         ELSE [outcome |-> "panic_data", args |-> <<>>]
    ELSE [outcome |-> "ignored", args |-> <<>>]

\* handle_client on a connection whose read has become ready.
handle_client(conn) ==
    IF conn.reset
    THEN [outcome |-> "panic_read", args |-> <<>>, nread |-> 0]
    ELSE LET n == ReadLen(conn.avail)
             d == Decode(conn.doc, n)
         IN  IF d.ok
             THEN [outcome |-> handle_message(d.message).outcome,
                   args |-> handle_message(d.message).args, nread |-> n]
             ELSE [outcome |-> "decode_error", args |-> <<>>, nread |-> n]

\* ----------------------------------------------------------------- inputs
BigArgs == [i \in 1..BigArgCount |-> "a"]

ArgChoices == { <<"--open", "game:42", "-v">>, BigArgs }

\* What a local program that is not the daemon does with a connection to
\* the daemon's port: the bytes it means to write (doc), how many of them it
\* writes at once when it connects (avail), and whether it then closes the
\* connection (closed) or aborts it (reset).
ExtInput(doc, avail, closed, reset) ==
    [doc |-> doc, avail |-> avail, closed |-> closed, reset |-> reset]

WellFormed == generate_message("args", JsonOfArgs(<<"x">>))

ExtInputs ==
    { ExtInput(<<RawBytes(5)>>, 5, TRUE, FALSE),
      ExtInput(<<generate_message("ping", JArray(<<>>, TRUE))>>,
               FrameLen(generate_message("ping", JArray(<<>>, TRUE))), TRUE, FALSE),
      ExtInput(<<generate_message("args", JNumber("42"))>>,
               FrameLen(generate_message("args", JNumber("42"))), TRUE, FALSE),
      ExtInput(<<WellFormed, WellFormed>>, 2 * FrameLen(WellFormed), TRUE, FALSE),
      ExtInput(<<WellFormed>>, FrameLen(WellFormed) - 1, FALSE, FALSE),
      ExtInput(<<WellFormed>>, 0, FALSE, FALSE),
      ExtInput(<<>>, 0, TRUE, FALSE),
      ExtInput(<<>>, 0, FALSE, TRUE) }

\* ------------------------------------------------------------------ state
Alive(p) == pc[p] \notin {"idle", "exited"}

NewConn(client, server, doc, avail, closed, reset) ==
    [client |-> client, server |-> server, doc |-> doc, avail |-> avail,
     closed |-> closed, reset |-> reset, state |-> "backlog",
     outcome |-> "pending", args |-> <<>>, nread |-> 0]

\* TRUE once the other local program has made its connection.
ExtConnected == \E c \in DOMAIN conns : conns[c].client = 0

Init ==
    /\ pc = [p \in Procs |-> "idle"]
    /\ argv = [p \in Procs |-> <<>>]
    /\ isSingle = [p \in Procs |-> "unknown"]
    /\ lockCalls = [p \in Procs |-> 0]
    /\ lockHandles = {}
    /\ serverPc = [p \in Procs |-> "none"]
    /\ trayPc = [p \in Procs |-> "none"]
    /\ listener = {}
    /\ foreignPort \in BOOLEAN
    /\ conns = <<>>
    /\ handled = [p \in Procs |-> <<>>]
    /\ relayResult = [p \in Procs |-> "none"]
    /\ relayCalls = [p \in Procs |-> 0]
    /\ exitCode = [p \in Procs |-> -1]
    /\ quitAsked = [p \in Procs |-> FALSE]
    /\ waitsDone = [p \in Procs |-> {}]
    /\ instPc = "off"
    /\ registry = [keys |-> {}, vals |-> {}]
    /\ runs = <<>>

Terminate_KeepLock(p, code) ==
    /\ pc' = [pc EXCEPT ![p] = "exited"]
    /\ exitCode' = [exitCode EXCEPT ![p] = code]
    /\ lockHandles' = lockHandles
    /\ listener' = listener \ {p}

\* The process ends (return from main, process::exit or a panic in main):
\* the OS closes its lock handle and its listener.
Terminate(p, code) ==
    /\ pc' = [pc EXCEPT ![p] = "exited"]
    /\ exitCode' = [exitCode EXCEPT ![p] = code]
    /\ lockHandles' = lockHandles \ {p}
    /\ listener' = listener \ {p}

\* ------------------------------------------------------ main: start-up
\* instance.is_single() after SingleInstance::new(app_name): the OS creates
\* the named lock object or opens the existing one; the caller is single
\* exactly when no handle on the object existed.
is_single_Always(handles) == TRUE

is_single_Inverted(handles) == handles # {}

is_single(handles) == handles = {}

\* if !instance.is_single() { relay path; return } else the primary path.
Branch(single) == IF single THEN "primary" ELSE "relay"

\* The operating system starts a daemon process with arguments a (processes
\* are started in the order of their numbers); main calls
\* SingleInstance::new(app_name).unwrap(), which succeeds, and branches on
\* is_single().
AcquireLock(p, a) ==
    /\ pc[p] = "idle"
    /\ \A q \in Procs : q < p => pc[q] # "idle"
    /\ argv' = [argv EXCEPT ![p] = a]
    /\ lockCalls' = [lockCalls EXCEPT ![p] = @ + 1]
    /\ lockHandles' = lockHandles \cup {p}
    /\ isSingle' = [isSingle EXCEPT ![p] =
                       IF is_single(lockHandles) THEN "single" ELSE "held"]
    /\ pc' = [pc EXCEPT ![p] = Branch(is_single(lockHandles))]
    /\ UNCHANGED <<serverPc, trayPc, listener, foreignPort, conns, handled,
                   relayResult, relayCalls, exitCode, quitAsked, waitsDone, instVars>>

LockFailed_Fallback(p) ==
    /\ pc' = [pc EXCEPT ![p] = "relay"]
    /\ UNCHANGED <<exitCode, lockHandles, listener>>

\* SingleInstance::new(app_name).unwrap() on Err: the panic unwinds out of
\* main and the process ends with the exit code of a panic.
LockFailed(p) == Terminate(p, 101)

\* The same start, but SingleInstance::new returns Err (the OS refuses the
\* lock object): unwrap panics in main.
AcquireLockError(p, a) ==
    /\ pc[p] = "idle"
    /\ \A q \in Procs : q < p => pc[q] # "idle"
    /\ argv' = [argv EXCEPT ![p] = a]
    /\ lockCalls' = [lockCalls EXCEPT ![p] = @ + 1]
    /\ LockFailed(p)
    /\ UNCHANGED <<isSingle, serverPc, trayPc, foreignPort, conns, handled,
                   relayResult, relayCalls, quitAsked, waitsDone, instVars>>

\* ------------------------------------------------------ main: relay path
RelayFailed_BecomePrimary(p, result) ==
    /\ relayResult' = [relayResult EXCEPT ![p] = result]
    /\ pc' = [pc EXCEPT ![p] = "primary"]
    /\ UNCHANGED <<exitCode, lockHandles, listener>>

\* if let Err(e) = send_to_running_instance(message).await { eprintln!(..) }
\* return: the failure is printed and main returns.
RelayFailed(p, result) ==
    /\ relayResult' = [relayResult EXCEPT ![p] = result]
    /\ Terminate(p, 0)

\* env::args(): the program name, then the arguments the process was
\* started with.
env_args(a) == <<"daemon.exe">> \o a

skip_None(n, s) == s

\* Iterator::skip(n).collect(): the sequence without its first n elements.
skip(n, s) == SubSeq(s, n + 1, Len(s))

\* The error `?` returns from send_to_running_instance when
\* TcpStream::connect fails (io::ErrorKind::ConnectionRefused).
connect_error == "unreachable"

write_all_error_AsConnect == "unreachable"

\* The error `?` returns from send_to_running_instance when write_all fails
\* (a reset or aborted connection).
write_all_error == "write_failed"

write_all_Partial(doc) == DocLen(doc) - 1

\* stream.write_all(bytes): number of bytes in the socket when it returns Ok.
write_all(doc) == DocLen(doc)

WriteReturns_AfterReply(p) ==
    \A c \in DOMAIN conns : conns[c].client = p => conns[c].state = "done"

\* send_to_running_instance returns Ok(()) right after write_all: it has no
\* read on the stream, so it waits for nothing the server does.
WriteReturns(p) == TRUE

\* send_to_running_instance: TcpStream::connect.  It succeeds when some
\* listener is bound to the port.  When it is refused the error is printed
\* and main returns.
RelayConnect(p) ==
    /\ pc[p] = "relay"
    /\ relayCalls' = [relayCalls EXCEPT ![p] = @ + 1]
    /\ IF listener # {}
       THEN /\ conns' = Append(conns,
                   NewConn(p, CHOOSE q \in listener : TRUE,
                           <<generate_message("args", JsonOfArgs(skip(1, env_args(argv[p]))))>>,
                           0, FALSE, FALSE))
            /\ pc' = [pc EXCEPT ![p] = "relay_write"]
            /\ UNCHANGED <<relayResult, exitCode, lockHandles, listener>>
       ELSE IF foreignPort
       THEN /\ pc' = [pc EXCEPT ![p] = "relay_write"]
            /\ UNCHANGED <<conns, relayResult, exitCode, lockHandles, listener>>
       ELSE /\ RelayFailed(p, connect_error)
            /\ UNCHANGED conns
    /\ UNCHANGED <<argv, isSingle, lockCalls, serverPc, trayPc, foreignPort,
                   handled, quitAsked, waitsDone, instVars>>

\* The connection process p made, if any.
OwnConn(p) == {c \in DOMAIN conns : conns[c].client = p}

\* send_to_running_instance: write_all succeeds, the stream is dropped and
\* main returns.
RelayWrite(p) ==
    /\ pc[p] = "relay_write"
    /\ WriteReturns(p)
    /\ conns' = [c \in DOMAIN conns |->
                    IF c \in OwnConn(p)
                    THEN [conns[c] EXCEPT !.avail = write_all(conns[c].doc), !.closed = TRUE]
                    ELSE conns[c]]
    /\ relayResult' = [relayResult EXCEPT ![p] = "ok"]
    /\ Terminate(p, 0)
    /\ UNCHANGED <<argv, isSingle, lockCalls, serverPc, trayPc, foreignPort,
                   handled, relayCalls, quitAsked, waitsDone, instVars>>

\* send_to_running_instance: write_all fails because the peer process is
\* gone; the error is printed and main returns.
RelayWriteError(p) ==
    /\ pc[p] = "relay_write"
    /\ \E c \in OwnConn(p) : ~Alive(conns[c].server)
    /\ conns' = [c \in DOMAIN conns |->
                    IF c \in OwnConn(p) THEN [conns[c] EXCEPT !.closed = TRUE]
                    ELSE conns[c]]
    /\ RelayFailed(p, write_all_error)
    /\ UNCHANGED <<argv, isSingle, lockCalls, serverPc, trayPc, foreignPort,
                   handled, relayCalls, quitAsked, waitsDone, instVars>>

\* ---------------------------------------------------- main: primary path
\* main reaches the two tokio::spawn calls only past the is_single() branch.
MayStartTasks_BeforeBranch(p) == pc[p] \in {"primary", "relay"}

MayStartTasks(p) == pc[p] = "primary"

startup_dispatch_Own(a) == <<a>>

\* The argument lists the primary path hands to handle_args from its own
\* command line: none, env::args() is read inside the relay branch only.
startup_dispatch(a) == <<>>

\* tokio::spawn(start_server()) and tokio::spawn(setup_tray(notify_clone));
\* main then waits in notify.notified().await
SpawnTasks(p) ==
    /\ MayStartTasks(p)
    /\ handled' = [handled EXCEPT ![p] = @ \o startup_dispatch(argv[p])]
    /\ pc' = [pc EXCEPT ![p] = "waiting"]
    /\ serverPc' = [serverPc EXCEPT ![p] = "spawned"]
    /\ trayPc' = [trayPc EXCEPT ![p] = "spawned"]
    /\ UNCHANGED <<argv, isSingle, lockCalls, lockHandles, listener,
                   foreignPort, conns, relayResult, relayCalls,
                   exitCode, quitAsked, waitsDone, instVars>>

\* ------------------------------------------------------------ start_server
\* TcpListener::bind(get_tcp_address()).await.unwrap(): the OS gives the port
\* to one listener at a time.
BindSucceeds == listener = {} /\ ~foreignPort

ServerBind(p) ==
    /\ Alive(p)
    /\ serverPc[p] = "spawned"
    /\ BindSucceeds
    /\ listener' = listener \cup {p}
    /\ serverPc' = [serverPc EXCEPT ![p] = "accepting"]
    /\ UNCHANGED <<pc, argv, isSingle, lockCalls, lockHandles, trayPc, foreignPort,
                   conns, handled, relayResult, relayCalls, exitCode, quitAsked,
                   waitsDone, instVars>>

\* bind fails: unwrap panics inside the spawned task, which ends the task
\* and leaves the rest of the process running.
ServerBindError(p) ==
    /\ Alive(p)
    /\ serverPc[p] = "spawned"
    /\ ~BindSucceeds
    /\ serverPc' = [serverPc EXCEPT ![p] = "panicked"]
    /\ UNCHANGED <<pc, argv, isSingle, lockCalls, lockHandles, trayPc, listener,
                   foreignPort, conns, handled, relayResult, relayCalls, exitCode,
                   quitAsked, waitsDone, instVars>>

AcceptLoopFree_Inline(p) ==
    \A d \in DOMAIN conns : conns[d].server = p => conns[d].state # "accepted"

\* tokio::spawn(async move { handle_client(stream).await }): the loop does
\* not await the handler, so it is back at listener.accept() whatever the
\* handlers of earlier connections are doing.
AcceptLoopFree(p) == TRUE

\* listener.accept() returns a stream; a task running handle_client is
\* spawned for it and the loop goes on.
Accept(p, c) ==
    /\ Alive(p)
    /\ serverPc[p] = "accepting"
    /\ AcceptLoopFree(p)
    /\ c \in DOMAIN conns
    /\ conns[c].server = p
    /\ conns[c].state = "backlog"
    /\ \A d \in DOMAIN conns : d < c /\ conns[d].server = p => conns[d].state # "backlog"
    /\ conns' = [conns EXCEPT ![c].state = "accepted"]
    /\ UNCHANGED <<pc, argv, isSingle, lockCalls, lockHandles, serverPc, trayPc,
                   listener, foreignPort, handled, relayResult, relayCalls,
                   exitCode, quitAsked, waitsDone, instVars>>

ServerAfterAcceptError_Break(state) == "panicked"

\* Err(e) => eprintln!("Failed to accept TCP connection: {}", e): the arm
\* only prints, and the loop takes its next turn.
ServerAfterAcceptError(state) == state

\* listener.accept() returns Err: the connection at the head of the backlog
\* was reset by its client before it could be accepted.  No handler is
\* spawned for it.
AcceptError(p, c) ==
    /\ Alive(p)
    /\ serverPc[p] = "accepting"
    /\ AcceptLoopFree(p)
    /\ c \in DOMAIN conns
    /\ conns[c].server = p
    /\ conns[c].state = "backlog"
    /\ conns[c].reset
    /\ \A d \in DOMAIN conns : d < c /\ conns[d].server = p => conns[d].state # "backlog"
    /\ conns' = [conns EXCEPT ![c].state = "done", ![c].outcome = "accept_error"]
    /\ serverPc' = [serverPc EXCEPT ![p] = ServerAfterAcceptError(@)]
    /\ UNCHANGED <<pc, argv, isSingle, lockCalls, lockHandles, trayPc, listener,
                   foreignPort, handled, relayResult, relayCalls, exitCode,
                   quitAsked, waitsDone, instVars>>

\* The read of an accepted connection is ready: bytes are readable, the
\* client has closed its end, or the connection was reset.
ReadReady(conn) == conn.avail > 0 \/ conn.closed \/ conn.reset

ServerAfterHandler_Inline(state, outcome) ==
    IF outcome \in {"panic_read", "panic_data"} THEN "panicked" ELSE state

\* What a panic inside a spawned handler does to the task of start_server:
\* tokio catches it at the task boundary, so the accept loop is untouched.
ServerAfterHandler(state, outcome) == state

dispatch_Twice(h, r) ==
    IF r.outcome = "dispatched" THEN Append(Append(h, r.args), r.args) ELSE h

\* handle_client calls handle_message once and returns; handle_message
\* calls handle_args once, in its "args" arm.
dispatch(h, r) ==
    IF r.outcome = "dispatched" THEN Append(h, r.args) ELSE h

\* The task of one connection runs handle_client to its end.
HandleClient(c) ==
    /\ c \in DOMAIN conns
    /\ conns[c].state = "accepted"
    /\ Alive(conns[c].server)
    /\ ReadReady(conns[c])
    /\ LET r == handle_client(conns[c])
           p == conns[c].server
       IN  /\ conns' = [conns EXCEPT ![c].state = "done", ![c].outcome = r.outcome,
                                     ![c].args = r.args, ![c].nread = r.nread]
           /\ handled' = [handled EXCEPT ![p] = dispatch(@, r)]
           /\ serverPc' = [serverPc EXCEPT ![p] = ServerAfterHandler(@, r.outcome)]
    /\ UNCHANGED <<pc, argv, isSingle, lockCalls, lockHandles, trayPc, listener,
                   foreignPort, relayResult, relayCalls, exitCode, quitAsked,
                   waitsDone, instVars>>

\* --------------------------------------------------------------- setup_tray
\* TrayItem::new, add_label and add_menu_item("Quit") succeed; the task then
\* waits in notify.notified().await
SetupTray(p) ==
    /\ Alive(p)
    /\ trayPc[p] = "spawned"
    /\ trayPc' = [trayPc EXCEPT ![p] = "waiting"]
    /\ UNCHANGED <<pc, argv, isSingle, lockCalls, lockHandles, serverPc, listener,
                   foreignPort, conns, handled, relayResult, relayCalls, exitCode,
                   quitAsked, waitsDone, instVars>>

\* One of the tray calls returns Err: unwrap panics inside the spawned task.
SetupTrayError(p) ==
    /\ Alive(p)
    /\ trayPc[p] = "spawned"
    /\ trayPc' = [trayPc EXCEPT ![p] = "panicked"]
    /\ UNCHANGED <<pc, argv, isSingle, lockCalls, lockHandles, serverPc, listener,
                   foreignPort, conns, handled, relayResult, relayCalls, exitCode,
                   quitAsked, waitsDone, instVars>>

\* The user clicks Quit: the menu callback calls process::exit(0).
Quit(p) ==
    /\ Alive(p)
    /\ trayPc[p] = "waiting"
    /\ quitAsked' = [quitAsked EXCEPT ![p] = TRUE]
    /\ Terminate(p, 0)
    /\ UNCHANGED <<argv, isSingle, lockCalls, serverPc, trayPc, foreignPort, conns,
                   handled, relayResult, relayCalls, waitsDone, instVars>>

\* ------------------------------------------------- other local programs
\* A local program connects to the daemon's port and does x.
ExtConnect(x) ==
    /\ listener # {}
    /\ ~ExtConnected
    /\ conns' = Append(conns, NewConn(0, CHOOSE q \in listener : TRUE,
                                      x.doc, x.avail, x.closed, x.reset))
    /\ UNCHANGED <<pc, argv, isSingle, lockCalls, lockHandles, serverPc, trayPc,
                   listener, foreignPort, handled, relayResult, relayCalls,
                   exitCode, quitAsked, waitsDone, instVars>>

\* A local program that has paused writes the rest and closes.
ExtSendRest(c) ==
    /\ c \in DOMAIN conns
    /\ conns[c].client = 0
    /\ conns[c].state # "done"
    /\ ~conns[c].closed /\ ~conns[c].reset
    /\ conns' = [conns EXCEPT ![c].avail = DocLen(conns[c].doc), ![c].closed = TRUE]
    /\ UNCHANGED <<pc, argv, isSingle, lockCalls, lockHandles, serverPc, trayPc,
                   listener, foreignPort, handled, relayResult, relayCalls,
                   exitCode, quitAsked, waitsDone, instVars>>

Next ==
    \/ \E p \in Procs, a \in ArgChoices : AcquireLock(p, a)
    \/ \E p \in Procs, a \in ArgChoices : AcquireLockError(p, a)
    \/ \E p \in Procs : RelayConnect(p)
    \/ \E p \in Procs : RelayWrite(p)
    \/ \E p \in Procs : RelayWriteError(p)
    \/ \E p \in Procs : SpawnTasks(p)
    \/ \E p \in Procs : ServerBind(p)
    \/ \E p \in Procs : ServerBindError(p)
    \/ \E p \in Procs, c \in DOMAIN conns : Accept(p, c)
    \/ \E p \in Procs, c \in DOMAIN conns : AcceptError(p, c)
    \/ \E c \in DOMAIN conns : HandleClient(c)
    \/ \E p \in Procs : SetupTray(p)
    \/ \E p \in Procs : SetupTrayError(p)
    \/ \E p \in Procs : Quit(p)
    \/ \E x \in ExtInputs : ExtConnect(x)
    \/ \E c \in DOMAIN conns : ExtSendRest(c)

Spec == Init /\ [][Next]_vars

\* ------------------------------------------------- installation manager
SCHEME == "frogworks"

HKEY_LOCAL_MACHINE == "HKEY_LOCAL_MACHINE"
HKEY_CURRENT_USER == "HKEY_CURRENT_USER"

\* The paths the manager passes to the registry, by component.
InstallKeyPath == <<"Frogworks">>
SchemeKeyPath == <<"Software", "Classes", SCHEME>>
CommandKeyPath == SchemeKeyPath \o <<"shell", "open", "command">>
UninstallKeyPath == <<"Software", "Frogworks">>

InstallValues == <<"MainExecutablePath", "CLIPath", "DaemonPath", "InstallationPath">>

IsPrefix(a, b) == Len(a) <= Len(b) /\ SubSeq(b, 1, Len(a)) = a

\* RegKey::predef(hive).create_subkey(path) returning Ok: the key exists
\* afterwards.
create_subkey(reg, hive, path) ==
    [reg EXCEPT !.keys = @ \cup {<<hive, path>>}]

\* key.set_value(name, ..) returning Ok.
set_value(reg, hive, path, name) ==
    [reg EXCEPT !.vals = @ \cup {<<hive, path, name>>}]

\* The first n values of names set on a key.
RECURSIVE set_values(_, _, _, _, _)
set_values(reg, hive, path, names, n) ==
    IF n = 0 THEN reg
    ELSE set_value(set_values(reg, hive, path, names, n - 1), hive, path, names[n])

\* RegKey::predef(hive).delete_subkey_all(path): Err when the key does not
\* exist; otherwise the key, its subkeys and their values are gone.
delete_subkey_all(reg, hive, path) ==
    IF <<hive, path>> \in reg.keys
    THEN [ok |-> TRUE,
          reg |-> [keys |-> {k \in reg.keys : ~(k[1] = hive /\ IsPrefix(path, k[2]))},
                   vals |-> {v \in reg.vals : ~(v[1] = hive /\ IsPrefix(path, v[2]))}]]
    ELSE [ok |-> FALSE, reg |-> reg]

remove_registry_keys(reg) == delete_subkey_all(reg, HKEY_CURRENT_USER, UninstallKeyPath)

unregister_uri_scheme(reg) == delete_subkey_all(reg, HKEY_CURRENT_USER, SchemeKeyPath)

\* uninstall_registry_keys: both removals with expect; ok is FALSE when one
\* of them panicked.
uninstall_registry_keys(reg) ==
    LET a == remove_registry_keys(reg)
    IN  IF ~a.ok THEN a ELSE unregister_uri_scheme(a.reg)

\* The keys the registry holds in the hive install writes to.
InstalledKeys(reg) == {k \in reg.keys : k[1] = HKEY_LOCAL_MACHINE}

\* The registry before the first run: any of the keys the manager names
\* may be there already, the one uninstall reads with or without its
\* InstallationPath value.
InitialRegistries ==
    { [keys |-> ks, vals |-> vs] :
        ks \in SUBSET { <<HKEY_LOCAL_MACHINE, InstallKeyPath>>,
                        <<HKEY_CURRENT_USER, UninstallKeyPath>>,
                        <<HKEY_CURRENT_USER, SchemeKeyPath>> },
        vs \in SUBSET { <<HKEY_CURRENT_USER, UninstallKeyPath, "InstallationPath">> } }

InstInit ==
    /\ pc = [p \in Procs |-> "idle"]
    /\ argv = [p \in Procs |-> <<>>]
    /\ isSingle = [p \in Procs |-> "unknown"]
    /\ lockCalls = [p \in Procs |-> 0]
    /\ lockHandles = {}
    /\ serverPc = [p \in Procs |-> "none"]
    /\ trayPc = [p \in Procs |-> "none"]
    /\ listener = {}
    /\ foreignPort = FALSE
    /\ conns = <<>>
    /\ handled = [p \in Procs |-> <<>>]
    /\ relayResult = [p \in Procs |-> "none"]
    /\ relayCalls = [p \in Procs |-> 0]
    /\ exitCode = [p \in Procs |-> -1]
    /\ quitAsked = [p \in Procs |-> FALSE]
    /\ waitsDone = [p \in Procs |-> {}]
    /\ instPc = "idle"
    /\ registry \in {r \in InitialRegistries :
                        \A v \in r.vals : <<v[1], v[2]>> \in r.keys}
    /\ runs = <<>>

daemonVars == <<pc, argv, isSingle, lockCalls, lockHandles, serverPc, trayPc,
                listener, foreignPort, conns, handled, relayResult, relayCalls,
                exitCode, quitAsked, waitsDone>>

\* A run of the manager that has started: which operation, how it ended
\* (exit is the process exit code, -1 while it runs), the keys it created
\* and whether it ran the rollback.
NewRun(op) == [op |-> op, result |-> "running", exit |-> -1, created |-> {},
               rollback |-> FALSE]

\* The current run ends.
EndRun(result, exit) ==
    /\ runs' = [runs EXCEPT ![Len(runs)].result = result, ![Len(runs)].exit = exit]
    /\ instPc' = "idle"

\* main: the manager is started with --operation op, with or without
\* --installation-directory.  Install without a directory exits with 1.
InstStart(op, withDirectory) ==
    /\ instPc = "idle"
    /\ Len(runs) < MaxRuns
    /\ IF op = "install" /\ ~withDirectory
       THEN /\ runs' = Append(runs, [NewRun(op) EXCEPT !.result = "usage", !.exit = 1])
            /\ instPc' = "idle"
       ELSE /\ runs' = Append(runs, NewRun(op))
            /\ instPc' = IF op = "install" THEN "create_registry_keys" ELSE "uninstall"
    /\ UNCHANGED <<registry, daemonVars>>

\* create_registry_keys returns Ok: the key is created (or opened) under
\* HKEY_LOCAL_MACHINE and its four values are set.
CreateRegistryKeys ==
    /\ instPc = "create_registry_keys"
    /\ registry' = set_values(create_subkey(registry, HKEY_LOCAL_MACHINE, InstallKeyPath),
                              HKEY_LOCAL_MACHINE, InstallKeyPath, InstallValues,
                              Len(InstallValues))
    /\ runs' = [runs EXCEPT ![Len(runs)].created =
                    @ \cup ({<<HKEY_LOCAL_MACHINE, InstallKeyPath>>} \ registry.keys)]
    /\ instPc' = "register_uri_scheme"
    /\ UNCHANGED daemonVars

\* create_subkey returns Err (the process may not write the hive): install
\* prints the error and goes on to uninstall_registry_keys.
CreateRegistryKeysError ==
    /\ instPc = "create_registry_keys"
    /\ instPc' = "rollback"
    /\ UNCHANGED <<registry, runs, daemonVars>>

\* The n-th set_value of create_registry_keys returns Err: expect panics.
CreateRegistryKeysPanic(n) ==
    /\ instPc = "create_registry_keys"
    /\ n \in DOMAIN InstallValues
    /\ registry' = set_values(create_subkey(registry, HKEY_LOCAL_MACHINE, InstallKeyPath),
                              HKEY_LOCAL_MACHINE, InstallKeyPath, InstallValues, n - 1)
    /\ runs' = [runs EXCEPT ![Len(runs)].created =
                    @ \cup ({<<HKEY_LOCAL_MACHINE, InstallKeyPath>>} \ registry.keys),
                            ![Len(runs)].result = "panic", ![Len(runs)].exit = 101]
    /\ instPc' = "idle"
    /\ UNCHANGED daemonVars

\* What register_uri_scheme has written when its first `stages` registry
\* calls returned Ok: the scheme key, its default value, its "URL Protocol"
\* value, the command key, the default value of the command key.
UriSchemeWritten(reg, stages) ==
    LET r1 == IF stages >= 1 THEN create_subkey(reg, HKEY_LOCAL_MACHINE, SchemeKeyPath) ELSE reg
        r2 == IF stages >= 2 THEN set_value(r1, HKEY_LOCAL_MACHINE, SchemeKeyPath, "") ELSE r1
        r3 == IF stages >= 3 THEN set_value(r2, HKEY_LOCAL_MACHINE, SchemeKeyPath, "URL Protocol") ELSE r2
        r4 == IF stages >= 4 THEN create_subkey(r3, HKEY_LOCAL_MACHINE, CommandKeyPath) ELSE r3
    IN  IF stages >= 5 THEN set_value(r4, HKEY_LOCAL_MACHINE, CommandKeyPath, "") ELSE r4

UriSchemeStages == 5

\* register_uri_scheme returns Ok and install returns: the run succeeded.
RegisterUriScheme ==
    /\ instPc = "register_uri_scheme"
    /\ registry' = UriSchemeWritten(registry, UriSchemeStages)
    /\ runs' = [runs EXCEPT ![Len(runs)].created =
                    @ \cup (InstalledKeys(registry') \ registry.keys),
                            ![Len(runs)].result = "ok", ![Len(runs)].exit = 0]
    /\ instPc' = "idle"
    /\ UNCHANGED daemonVars

\* One of the registry calls of register_uri_scheme returns Err after
\* `done` of them returned Ok: install prints the error and goes on to
\* uninstall_registry_keys.
RegisterUriSchemeError(done) ==
    /\ instPc = "register_uri_scheme"
    /\ done \in 0..(UriSchemeStages - 1)
    /\ registry' = UriSchemeWritten(registry, done)
    /\ runs' = [runs EXCEPT ![Len(runs)].created =
                    @ \cup (InstalledKeys(registry') \ registry.keys)]
    /\ instPc' = "rollback"
    /\ UNCHANGED daemonVars

\* install after a failed step: uninstall_registry_keys(), then
\* process::exit(1), unless one of the removals panics.
Rollback ==
    /\ instPc = "rollback"
    /\ LET r == uninstall_registry_keys(registry)
       IN  /\ registry' = r.reg
           /\ runs' = [runs EXCEPT ![Len(runs)].rollback = TRUE,
                                   ![Len(runs)].result = IF r.ok THEN "failed" ELSE "panic",
                                   ![Len(runs)].exit = IF r.ok THEN 1 ELSE 101]
    /\ instPc' = "idle"
    /\ UNCHANGED daemonVars

\* uninstall, called by main with expect: open the key under
\* HKEY_CURRENT_USER, read its InstallationPath, uninstall_registry_keys().
Uninstall ==
    /\ instPc = "uninstall"
    /\ IF /\ <<HKEY_CURRENT_USER, UninstallKeyPath>> \in registry.keys
          /\ <<HKEY_CURRENT_USER, UninstallKeyPath, "InstallationPath">> \in registry.vals
       THEN LET r == uninstall_registry_keys(registry)
            IN  /\ registry' = r.reg
                /\ IF r.ok THEN EndRun("ok", 0) ELSE EndRun("panic", 101)
       ELSE /\ registry' = registry
            /\ EndRun("panic", 101)
    /\ UNCHANGED daemonVars

InstNext ==
    \/ \E op \in {"install", "uninstall"}, d \in BOOLEAN : InstStart(op, d)
    \/ CreateRegistryKeys
    \/ CreateRegistryKeysError
    \/ \E n \in DOMAIN InstallValues : CreateRegistryKeysPanic(n)
    \/ RegisterUriScheme
    \/ \E done \in 0..(UriSchemeStages - 1) : RegisterUriSchemeError(done)
    \/ Rollback
    \/ Uninstall

InstSpec == InstInit /\ [][InstNext]_vars

\* ------------------------------------------------------------------ claims
IsPrimary(p) == Alive(p) /\ (serverPc[p] # "none" \/ trayPc[p] # "none")

\* C1: at any time at most one daemon process has its listener bound to the
\* port, at most one owns a tray icon, and at most one runs server or tray
\* tasks at all; a process that found the lock held has none of them.
C1_OnePrimary ==
    /\ Cardinality(listener) <= 1
    /\ Cardinality({p \in Procs : Alive(p) /\ trayPc[p] = "waiting"}) <= 1
    /\ Cardinality({p \in Procs : IsPrimary(p)}) <= 1
    /\ \A p \in Procs : isSingle[p] = "held" => ~IsPrimary(p) /\ p \notin listener

\* C1 witness: one process serves and owns the tray while another invocation
\* has relayed its arguments and exited.
C1_Witness ==
    \E p, q \in Procs :
        /\ p # q
        /\ Alive(p) /\ p \in listener /\ trayPc[p] = "waiting"
        /\ isSingle[q] = "held" /\ pc[q] = "exited" /\ relayResult[q] = "ok"

\* C2: among processes alive together at most one has observed the lock as
\* acquired, and whoever observed it as held did so because another process
\* had acquired it: never two acquirers, never none.
C2_Exclusivity ==
    /\ Cardinality({p \in Procs : Alive(p) /\ isSingle[p] = "single"}) <= 1
    /\ \A p \in Procs :
          isSingle[p] = "held" => \E q \in Procs \ {p} : isSingle[q] = "single"

\* C2 witness: two processes are alive together, one acquired the lock and
\* the other found it held.
C2_Witness ==
    \E p, q \in Procs :
        /\ Alive(p) /\ Alive(q)
        /\ isSingle[p] = "single" /\ isSingle[q] = "held"

\* C3: a process calls SingleInstance::new at most once, and server or tray
\* tasks exist only in a process that made that one call and was told it is
\* the single instance.
C3_LockBeforeTasks ==
    \A p \in Procs :
        /\ lockCalls[p] <= 1
        /\ (serverPc[p] # "none" \/ trayPc[p] # "none")
              => lockCalls[p] = 1 /\ isSingle[p] = "single"

\* C3 witness: a process that acquired the lock has started both tasks.
C3_Witness ==
    \E p \in Procs :
        /\ lockCalls[p] = 1 /\ isSingle[p] = "single"
        /\ serverPc[p] = "accepting" /\ trayPc[p] = "waiting"

RelayConns == {c \in DOMAIN conns : conns[c].client # 0}

\* C4: every relayed argument list that the server has handled was passed to
\* handle_args equal to the list the client sent, whatever its encoded size.
C4_RelayFidelity ==
    \A c \in RelayConns :
        conns[c].state = "done"
            => /\ conns[c].outcome = "dispatched"
               /\ conns[c].args = argv[conns[c].client]

\* C5: once a live primary has handled every connection made to it by N relay
\* invocations (and no other program has connected), it has called
\* handle_args exactly N times, and no second primary exists.
C5_EveryRelayProcessed ==
    \A p \in Procs :
        (/\ Alive(p) /\ p \in listener
         /\ ~ExtConnected
         /\ \A c \in DOMAIN conns : conns[c].server = p => conns[c].state = "done")
            => /\ Len(handled[p]) = Cardinality({c \in RelayConns : conns[c].server = p})
               /\ Cardinality({q \in Procs : IsPrimary(q)}) <= 1

\* C6: a process that found the lock held is on the relay path or terminated,
\* never has server or tray tasks, calls send_to_running_instance at most
\* once and exactly once by the time it has terminated, and has terminated as
\* soon as the relay has a result, success or failure.
C6_RelayThenExit ==
    \A p \in Procs :
        isSingle[p] = "held"
            => /\ pc[p] \in {"relay", "relay_write", "exited"}
               /\ serverPc[p] = "none" /\ trayPc[p] = "none"
               /\ relayCalls[p] <= 1
               /\ pc[p] = "relay" => relayCalls[p] = 0
               /\ pc[p] = "exited" => relayCalls[p] = 1 /\ relayResult[p] # "none"
               /\ relayResult[p] # "none" => pc[p] = "exited"

\* C6 witness: one process that found the lock held has terminated after a
\* relay that failed.
C6_Witness ==
    \E p \in Procs :
        /\ isSingle[p] = "held" /\ pc[p] = "exited"
        /\ relayCalls[p] = 1
        /\ relayResult[p] \in {"unreachable", "write_failed"}

Malformed(conn) ==
    conn.state = "done" /\ conn.outcome \in {"decode_error", "panic_data", "panic_read"}

\* All bytes of the connection have arrived and they are one "args" message
\* with an array of strings that fits the read buffer.
CompleteArgsMessage(conn) ==
    /\ ~conn.reset
    /\ Len(conn.doc) = 1
    /\ Head(conn.doc).kind = "object" /\ Head(conn.doc).type = "args"
    /\ IsStringArray(Head(conn.doc).data)
    /\ conn.avail = DocLen(conn.doc)
    /\ conn.avail <= BUFFER_SIZE

\* C7: a connection carrying a complete well-formed "args" message, made
\* after a connection to the same live server that ended in a decode error
\* or a handler panic, is not held up by it: the accept loop is still
\* running and can accept from the backlog the connection waits in, the
\* step that handles it once accepted is enabled, and once handled it was
\* dispatched with the arguments sent.
C7_Isolation ==
    \A c, d \in DOMAIN conns :
        (/\ d < c /\ conns[d].server = conns[c].server
         /\ Malformed(conns[d])
         /\ Alive(conns[c].server)
         /\ CompleteArgsMessage(conns[c]))
            => /\ serverPc[conns[c].server] = "accepting"
               /\ conns[c].state = "backlog"
                     => \E e \in DOMAIN conns : ENABLED Accept(conns[c].server, e)
               /\ conns[c].state = "accepted" => ENABLED HandleClient(c)
               /\ conns[c].state = "done"
                     => /\ conns[c].outcome = "dispatched"
                        /\ conns[c].args = ArgsOf(Head(conns[c].doc).data)

\* C7 witness: a malformed connection was handled and a later well-formed
\* connection to the same live server was dispatched.
C7_Witness ==
    \E c, d \in DOMAIN conns :
        /\ d < c /\ conns[d].server = conns[c].server
        /\ Malformed(conns[d])
        /\ Alive(conns[c].server)
        /\ conns[c].state = "done" /\ conns[c].outcome = "dispatched"

\* C8: no handler ends in a panic: a connection whose bytes are not handled
\* as a message ends as a logged decode error (or, never accepted, as a
\* logged accept error).
C8_DecodeErrorsLogged ==
    \A c \in DOMAIN conns :
        conns[c].state = "done"
            => conns[c].outcome \in {"dispatched", "ignored", "decode_error",
                                     "accept_error"}

\* The bytes the handler will read decode to a message whose type is not
\* "args".
UnknownKind(conn) ==
    /\ ~conn.reset
    /\ Len(conn.doc) = 1 /\ Head(conn.doc).kind = "object"
    /\ ReadLen(conn.avail) = FrameLen(Head(conn.doc))
    /\ Head(conn.doc).type # "args"

\* C9: the step in which a handler finishes with a decoded message whose type
\* is not "args" records it as ignored and calls handle_args for nobody: the
\* handled lists, the tasks, the listener and the processes are unchanged.
C9_UnknownKindIgnored ==
    [][\A c \in DOMAIN conns :
          (/\ conns[c].state = "accepted"
           /\ conns'[c].state = "done"
           /\ UnknownKind(conns[c]))
             => /\ conns'[c].outcome = "ignored"
                /\ UNCHANGED <<handled, serverPc, trayPc, listener, pc, exitCode>>]_vars

\* C9 witness: a message of unknown type was ignored and its server is still
\* accepting.
C9_Witness ==
    \E c \in DOMAIN conns :
        /\ conns[c].state = "done" /\ conns[c].outcome = "ignored"
        /\ Head(conns[c].doc).type = "ping"
        /\ Alive(conns[c].server) /\ serverPc[conns[c].server] = "accepting"
        /\ handled[conns[c].server] = <<>>

\* C10: once shutdown has been requested (the Quit action, the only trigger
\* the daemon has), both the wait of setup_tray and the top-level wait of
\* main have observed it and returned.
C10_BothWaitsReturn ==
    \A p \in Procs : quitAsked[p] => waitsDone[p] = {"main", "tray"}

\* The notified().await calls process p has begun: main's once it waits,
\* setup_tray's once the tray is set up.
Waiters(p) ==
    (IF pc[p] = "waiting" \/ (pc[p] = "exited" /\ trayPc[p] # "none")
     THEN {"main"} ELSE {})
    \cup (IF trayPc[p] = "waiting" THEN {"tray"} ELSE {})

\* C11: once shutdown has been signalled (by Quit, the only trigger) it stays
\* signalled, and every wait the process has begun has observed it.
C11_LatchObserved ==
    \A p \in Procs : quitAsked[p] => Waiters(p) \subseteq waitsDone[p]

\* C12: once Quit was requested the top-level wait of main has resolved and
\* the process has terminated with exit code 0.
C12_QuitResolvesWait ==
    \A p \in Procs :
        quitAsked[p]
            => /\ "main" \in waitsDone[p]
               /\ pc[p] = "exited" /\ exitCode[p] = 0

\* C13: a process on the relay path whose relay failed has a non-zero exit
\* code, one whose relay succeeded has exit code 0, and neither has a
\* listener.
C13_RelayExitCode ==
    \A p \in Procs :
        (isSingle[p] = "held" /\ pc[p] = "exited")
            => /\ relayResult[p] \in {"unreachable", "write_failed"} => exitCode[p] # 0
               /\ relayResult[p] = "ok" => exitCode[p] = 0
               /\ p \notin listener

\* C14: a primary whose bind failed has terminated with a non-zero exit code:
\* it is never alive with the lock and no listener.
C14_BindFailureFatal ==
    \A p \in Procs :
        serverPc[p] = "panicked" => pc[p] = "exited" /\ exitCode[p] \notin {-1, 0}

\* SingleInstance::new returned Err to process p.
LockRefused(p) == lockCalls[p] = 1 /\ isSingle[p] = "unknown"

\* C15: a process whose lock registration failed has terminated with a
\* non-zero exit code and has started neither server nor tray nor a relay:
\* it holds no lock handle, has no listener and made no connection.
C15_LockFailureFatal ==
    \A p \in Procs :
        LockRefused(p)
            => /\ pc[p] = "exited" /\ exitCode[p] \notin {-1, 0}
               /\ serverPc[p] = "none" /\ trayPc[p] = "none"
               /\ relayCalls[p] = 0 /\ relayResult[p] = "none"
               /\ p \notin listener /\ p \notin lockHandles
               /\ \A c \in DOMAIN conns : conns[c].client # p

\* C15 witness: the lock registration of the second process failed while the
\* first is a running primary with its listener bound.
C15_Witness ==
    \E p, q \in Procs :
        /\ LockRefused(p) /\ pc[p] = "exited"
        /\ Alive(q) /\ q \in listener

\* C16: as long as the process lives and its listener is bound the accept
\* loop is running, whatever accepts failed and whatever the handlers of
\* earlier connections ran into, and it can take the next connection from a
\* non-empty backlog.
C16_AcceptLoopSurvives ==
    \A p \in Procs :
        (Alive(p) /\ p \in listener)
            => /\ serverPc[p] = "accepting"
               /\ \A c \in DOMAIN conns :
                     (conns[c].server = p /\ conns[c].state = "backlog")
                        => \E e \in DOMAIN conns : ENABLED Accept(p, e)

\* C16 witness: an accept failed, and a connection made after it was accepted
\* by the same loop and ended in a decode error or a handler panic; the loop
\* is still running.
C16_Witness ==
    \E c, d \in DOMAIN conns :
        /\ c < d /\ conns[c].server = conns[d].server
        /\ conns[c].outcome = "accept_error"
        /\ Malformed(conns[d])
        /\ Alive(conns[d].server)
        /\ serverPc[conns[d].server] = "accepting"

\* The handler of the connection is blocked in stream.read: the client is
\* connected and has sent nothing.
Silent(conn) == conn.state = "accepted" /\ ~ReadReady(conn)

\* C17: while the handler of one connection is blocked on a silent client,
\* the accept loop of that live server still accepts, the handler of every
\* other accepted connection whose read is ready can run, and the outcome of
\* every other handled connection is the one handle_client gives for its own
\* bytes.
C17_IndependentHandlers ==
    \A c, d \in DOMAIN conns :
        (/\ c # d /\ conns[c].server = conns[d].server
         /\ Alive(conns[d].server)
         /\ Silent(conns[d]))
            => /\ serverPc[conns[c].server] = "accepting"
               /\ conns[c].state = "backlog"
                     => \E e \in DOMAIN conns : ENABLED Accept(conns[c].server, e)
               /\ (conns[c].state = "accepted" /\ ReadReady(conns[c]))
                     => ENABLED HandleClient(c)
               /\ (conns[c].state = "done" /\ conns[c].outcome # "accept_error")
                     => /\ conns[c].outcome = handle_client(conns[c]).outcome
                        /\ conns[c].args = handle_client(conns[c]).args

\* C17 witness: a connection made after a silent one was accepted and
\* dispatched while the handler of the silent one is still blocked.
C17_Witness ==
    \E c, d \in DOMAIN conns :
        /\ d < c /\ conns[c].server = conns[d].server
        /\ Alive(conns[d].server)
        /\ Silent(conns[d])
        /\ conns[c].state = "done" /\ conns[c].outcome = "dispatched"

\* C18: the handler of an accepted connection never depends on its client
\* to come to an end: while the server lives, the daemon has a step of its
\* own that ends it (handling what was sent, or dropping a connection that
\* sent nothing in time).
C18_SilentDropped ==
    \A c \in DOMAIN conns :
        (conns[c].state = "accepted" /\ Alive(conns[c].server))
            => ENABLED HandleClient(c)

\* Every message the client sends on the connection is an "args" message
\* with an array of strings, and all of them together fit one read buffer.
ArgsFramesOnly(conn) ==
    /\ ~conn.reset
    /\ Len(conn.doc) >= 1
    /\ \A i \in DOMAIN conn.doc :
          /\ conn.doc[i].kind = "object" /\ conn.doc[i].type = "args"
          /\ IsStringArray(conn.doc[i].data)
    /\ DocLen(conn.doc) <= BUFFER_SIZE

\* C19: a handled connection on which the client sends well-formed "args"
\* messages was dispatched with the arguments of the first message sent,
\* however the bytes were split over reads and however many messages follow.
C19_SelfDelimiting ==
    \A c \in DOMAIN conns :
        (conns[c].state = "done" /\ conns[c].outcome # "accept_error"
         /\ ArgsFramesOnly(conns[c]))
            => /\ conns[c].outcome = "dispatched"
               /\ conns[c].args = ArgsOf(Head(conns[c].doc).data)

\* C20: once the primary has handled the connection of a process that
\* relayed its arguments, handle_args was called with exactly those
\* arguments and the relaying process has exit code 0.
C20_RelayDelivered ==
    \A c \in RelayConns :
        conns[c].state = "done"
            => /\ exitCode[conns[c].client] = 0
               /\ \E i \in DOMAIN handled[conns[c].server] :
                     handled[conns[c].server][i] = argv[conns[c].client]

C22_OneArgsEnvelope ==
    \A p \in Procs :
        /\ relayCalls[p] <= 1
        /\ Cardinality(OwnConn(p)) <= relayCalls[p]
        /\ isSingle[p] # "held" => OwnConn(p) = {}
        /\ \A c \in OwnConn(p) :
              /\ Len(conns[c].doc) = 1
              /\ Head(conns[c].doc).kind = "object"
              /\ Head(conns[c].doc).type = "args"
              /\ IsStringArray(Head(conns[c].doc).data)
              /\ ArgsOf(Head(conns[c].doc).data) = argv[p]
              /\ conns[c].avail \in {0, DocLen(conns[c].doc)}
              /\ relayResult[p] = "ok" => conns[c].avail = DocLen(conns[c].doc)
              /\ pc[p] = "exited" => conns[c].closed

\* C22 witness: a relay wrote its message and closed the connection.
C22_Witness ==
    \E p \in Procs, c \in DOMAIN conns :
        /\ c \in OwnConn(p)
        /\ relayResult[p] = "ok" /\ pc[p] = "exited"
        /\ conns[c].closed /\ conns[c].avail = DocLen(conns[c].doc)

\* C23: every process registers with the lock at most once; a live process
\* that acquired it holds its handle (in particular while its server or tray
\* task runs); a process that has ended, however it ended, holds none; and
\* when no started process is alive, the next process to start acquires the
\* lock and takes the primary path, never the relay path.
C23_LockLifecycle ==
    \A p \in Procs :
        /\ lockCalls[p] <= 1
        /\ (Alive(p) /\ isSingle[p] = "single") => p \in lockHandles
        /\ IsPrimary(p) => p \in lockHandles
        /\ pc[p] = "exited" => p \notin lockHandles
        /\ (/\ pc[p] = "idle"
            /\ \A q \in Procs : q < p => pc[q] = "exited")
              => \A a \in ArgChoices :
                    /\ ENABLED (AcquireLock(p, a) /\ pc'[p] = "primary")
                    /\ ~ENABLED (AcquireLock(p, a) /\ pc'[p] = "relay")

\* C23 witness: a primary was quit, and the process started after it
\* acquired the lock and runs as primary.
C23_Witness ==
    \E p, q \in Procs :
        /\ q < p
        /\ quitAsked[q] /\ pc[q] = "exited"
        /\ isSingle[p] = "single" /\ IsPrimary(p) /\ p \in lockHandles

\* C24: a relay that has connected can always finish its write and return,
\* whatever the server has done with the connection so far, and a relay
\* that returned Ok has ended its process.
C24_NoAcknowledgment ==
    \A p \in Procs :
        /\ pc[p] = "relay_write" => ENABLED RelayWrite(p)
        /\ relayResult[p] = "ok" => pc[p] = "exited"

\* C24 witness: a relay returned Ok and its process ended while its
\* connection was still waiting in the backlog of a live server.
C24_Witness ==
    \E p \in Procs, c \in DOMAIN conns :
        /\ c \in OwnConn(p)
        /\ relayResult[p] = "ok" /\ pc[p] = "exited"
        /\ conns[c].state = "backlog" /\ Alive(conns[c].server)

\* C25: a relay that has connected is never stuck (its write can succeed or
\* fail) and ends in one of two ways only: Ok with every byte of the message
\* written, or a write failure with none, whether or not the primary was
\* shut down meanwhile.
C25_WriteOrFailure ==
    \A p \in Procs :
        /\ pc[p] = "relay_write"
              => (ENABLED RelayWrite(p) \/ ENABLED RelayWriteError(p))
        /\ \A c \in OwnConn(p) :
              /\ pc[p] = "exited" => relayResult[p] \in {"ok", "write_failed"}
              /\ relayResult[p] = "ok" <=> (pc[p] = "exited" /\ conns[c].avail = DocLen(conns[c].doc))
              /\ relayResult[p] = "write_failed" <=> (pc[p] = "exited" /\ conns[c].avail = 0)

\* C25 witness: the primary was quit after a relay had connected to it, and
\* the relay's write failed.
C25_Witness ==
    \E c \in RelayConns :
        /\ quitAsked[conns[c].server]
        /\ relayResult[conns[c].client] = "write_failed"

\* C26: while a process is on the relay path, about to connect, a live
\* process that acquired the lock has its listener bound; and no relay to a
\* port nobody else holds is ever refused.
C26_ListenerBoundWhenHeld ==
    \A p, q \in Procs :
        /\ (pc[p] = "relay" /\ Alive(q) /\ isSingle[q] = "single" /\ ~foreignPort)
              => q \in listener
        /\ ~foreignPort => relayResult[p] # "unreachable"

\* C27: a process waiting in main for the shutdown signal has a tray task
\* that is being set up or is waiting with its Quit item registered.
C27_TrayAlwaysPresent ==
    \A p \in Procs :
        pc[p] = "waiting" => trayPc[p] \in {"spawned", "waiting"}

\* The connections of server p that ended in a call of handle_args.
Dispatched(p) ==
    {c \in DOMAIN conns : /\ conns[c].server = p /\ conns[c].state = "done"
                          /\ conns[c].outcome = "dispatched"}

\* C28: every argument list passed to handle_args in a process was read and
\* decoded from a connection that process accepted; a process that handled
\* no connection has passed nothing, its own arguments included.
C28_OnlyRelayedArgs ==
    \A p \in Procs :
        \A i \in DOMAIN handled[p] :
            \E c \in Dispatched(p) :
                /\ conns[c].args = handled[p][i]
                /\ conns[c].nread = DocLen(conns[c].doc)

\* C28 witness: a live primary started with arguments of its own has
\* dispatched a relayed list, and its own arguments are not among the lists
\* it dispatched.
C28_Witness ==
    \E p \in Procs :
        /\ IsPrimary(p) /\ argv[p] # <<>>
        /\ handled[p] # <<>>
        /\ \A i \in DOMAIN handled[p] : handled[p][i] # argv[p]

\* C29: the number of calls of handle_args in a process equals the number
\* of its connections that ended dispatched: one call for each, none for a
\* connection still open or ended otherwise, however many messages the
\* client wrote on it.
C29_OneDispatchPerConn ==
    \A p \in Procs :
        /\ Len(handled[p]) = Cardinality(Dispatched(p))
        /\ \A c \in DOMAIN conns :
              conns[c].state # "done" => conns[c].outcome = "pending"

\* C29 witness: a client wrote two messages on one connection, another
\* connection of the same server was dispatched, both handlers have ended
\* and handle_args was called once.
C29_Witness ==
    \E c, d \in DOMAIN conns :
        /\ conns[c].server = conns[d].server
        /\ conns[c].state = "done" /\ Len(conns[c].doc) = 2
        /\ d \in Dispatched(conns[d].server)
        /\ Len(handled[conns[d].server]) = 1

\* C30: a finished uninstall that follows a successful install has ended
\* without error and none of the keys that install created is left; and an
\* install that ran its rollback has ended through it (exit code 1, not a
\* panic) with none of the keys it created left.
C30_UninstallUndoesInstall ==
    \A i \in DOMAIN runs :
        /\ (/\ runs[i].op = "install" /\ runs[i].result = "ok"
            /\ i + 1 \in DOMAIN runs
            /\ runs[i + 1].op = "uninstall" /\ runs[i + 1].result # "running")
              => /\ runs[i + 1].result = "ok"
                 /\ runs[i].created \cap registry.keys = {}
        /\ (/\ runs[i].op = "install" /\ runs[i].rollback
            /\ i = Len(runs))
              => /\ runs[i].result = "failed" /\ runs[i].exit = 1
                 /\ runs[i].created \cap registry.keys = {}

====
